---- MODULE Spec2Model ----
(***************************************************************************)
(* Model of ContextSummarizer.summarize (context_summarizer.py), of the    *)
(* vector generator that uses it as its oracle                             *)
(* (scripts/generate_browser_tests.py) and of the shared input strategy    *)
(* (tests/strategies.py).                                                  *)
(*                                                                         *)
(* Text is a sequence of one-character strings.  A Python value is a       *)
(* record [kind, val]: kind "none" is None, "str" a text, "int" an integer,*)
(* "bool" a boolean and "list" a list of values.                           *)
(***************************************************************************)
EXTENDS Integers, Sequences

(***************************************************************************)
(* Bounds of the model.                                                    *)
(***************************************************************************)
\* Longest input sequence handed to a single summarize call.
MaxChunks == 4
\* Calls made by the concurrent callers, all together.
MaxCalls == 3
\* Largest `count` handed to generate_vectors.
MaxCount == 2

(***************************************************************************)
(* Program constants.                                                      *)
(***************************************************************************)
\* text[:5000]
FragmentCap == 5000
\* summary[:20000]
SummaryCap == 20000
\* st.text(max_size=5000)
TextMax == 5000
\* st.lists(..., max_size=50)
ListMax == 50

(***************************************************************************)
(* Python values.                                                          *)
(***************************************************************************)
None == [kind |-> "none", val |-> 0]
Text(s) == [kind |-> "str", val |-> s]
IntVal(n) == [kind |-> "int", val |-> n]
BoolVal(b) == [kind |-> "bool", val |-> b]
List(xs) == [kind |-> "list", val |-> xs]

IsText(v) == v.kind = "str"

Rep(c, n) == [i \in 1..n |-> c]

\* s[:n] for n >= 0: the prefix of s of length min(Len(s), n).
Slice(s, n) == IF Len(s) <= n THEN s ELSE SubSeq(s, 1, n)

\* The decimal digits of a natural number, most significant first.
RECURSIVE Digits(_)
Digits(n) ==
    LET d == <<"0", "1", "2", "3", "4", "5", "6", "7", "8", "9">>
    IN  IF n < 10 THEN <<d[n + 1]>> ELSE Digits(n \div 10) \o <<d[(n % 10) + 1]>>

\* str(chunk).
Str(chunk) ==
    CASE chunk.kind = "str"  -> chunk.val
      [] chunk.kind = "none" -> <<"N", "o", "n", "e">>
      [] chunk.kind = "int"  -> IF chunk.val < 0 THEN <<"-">> \o Digits(-chunk.val)
                                ELSE Digits(chunk.val)
      [] chunk.kind = "bool" -> IF chunk.val THEN <<"T", "r", "u", "e">>
                                ELSE <<"F", "a", "l", "s", "e">>

\* Join with a newline after every part, the last one too.
RECURSIVE JoinTrailing(_)
JoinTrailing(parts) ==
    IF Len(parts) = 0 THEN <<>>
    ELSE parts[1] \o <<"\n">> \o JoinTrailing(Tail(parts))

\* "\n".join(parts) for a list of texts.
RECURSIVE Join(_)
Join(parts) ==
    IF Len(parts) = 0 THEN <<>>
    ELSE IF Len(parts) = 1 THEN parts[1]
    ELSE parts[1] \o <<"\n">> \o Join(Tail(parts))

(***************************************************************************)
(* ContextSummarizer.summarize.                                            *)
(***************************************************************************)
\* The outcome of a call: a returned value or a raised exception.
Returned(v) == [raised |-> FALSE, value |-> v]
Raised == [raised |-> TRUE, value |-> None]

\* The `chunks is None` guard left out.
ChunksIsNoneDropped(chunks) == FALSE

\* `chunks is None`
ChunksIsNone(chunks) == chunks = None

\* The `chunk is None` test left out: None is converted like any other value.
ChunkIsNoneNever(chunk) == FALSE

\* `chunk is None`
ChunkIsNone(chunk) == chunk = None

\* `for chunk in chunks` raises TypeError unless chunks is iterable.
Iterable(chunks) == chunks.kind = "list"

\* The loop body without the [:5000] slice.
VisitUntruncated(safe, chunk) ==
    IF ChunkIsNone(chunk) THEN safe ELSE Append(safe, Text(Str(chunk)))

\* One iteration of the loop: the list after `chunk` has been visited.
Visit(safe, chunk) ==
    IF ChunkIsNone(chunk) THEN safe
    ELSE Append(safe, Text(Slice(Str(chunk), FragmentCap)))

\* safe_chunks after the loop has visited items[1..n].
RECURSIVE SafeChunks(_, _)
SafeChunks(items, n) ==
    IF n = 0 THEN <<>> ELSE Visit(SafeChunks(items, n - 1), items[n])

\* The return without the [:20000] slice.
FinishUncapped(safe) ==
    IF safe = <<>> THEN Returned(Text(<<>>))
    ELSE IF \E i \in 1..Len(safe) : ~IsText(safe[i]) THEN Raised
    ELSE Returned(Text(Join([i \in 1..Len(safe) |-> safe[i].val])))

\* Lines 23-28: the return value computed from safe_chunks; str.join raises
\* TypeError on an item that is not a str.
Finish(safe) ==
    IF safe = <<>> THEN Returned(Text(<<>>))
    ELSE IF \E i \in 1..Len(safe) : ~IsText(safe[i]) THEN Raised
    ELSE Returned(Text(Slice(Join([i \in 1..Len(safe) |-> safe[i].val]), SummaryCap)))

summarize(chunks) ==
    IF ChunksIsNone(chunks) THEN Returned(Text(<<>>))
    ELSE IF ~Iterable(chunks) THEN Raised
    ELSE Finish(SafeChunks(chunks.val, Len(chunks.val)))


(***************************************************************************)
(* State.                                                                  *)
(***************************************************************************)
VARIABLES
    \* A single call: its argument and its outcome.
    chunks, outcome,
    \* Concurrent callers: each caller's position in its call, its argument,
    \* the value the argument had when the call was made, the loop's
    \* position, the call frames' safe_chunks lists, the call's outcome,
    \* the completed calls in the order their results were taken, the number
    \* of calls started, and whether a call ran a loop step while another
    \* call was inside its loop.
    pc, args, given, pos, safe_chunks, results, log, calls, overlap,
    \* The generator: main's position, generate_vectors' count, its loop
    \* index and its list, the manifest file, the number of write_text
    \* calls, and standard output.
    gpc, count, idx, vectors, file, writes, stdout

sumVars == <<chunks, outcome>>
concVars == <<pc, args, given, pos, safe_chunks, results, log, calls, overlap>>
genVars == <<gpc, count, idx, vectors, file, writes, stdout>>
vars == <<chunks, outcome, pc, args, given, pos, safe_chunks, results, log, calls,
          overlap, gpc, count, idx, vectors, file, writes, stdout>>

Unset == [kind |-> "unset", val |-> 0]
NoOutcome == [raised |-> FALSE, value |-> Unset]

Callers == {1, 2}

NoFile == [kind |-> "absent", version |-> "", generated_at |-> "", vectors |-> <<>>]

SumIdle == chunks = None /\ outcome = NoOutcome

ConcIdle ==
    /\ pc = [c \in Callers |-> "idle"]
    /\ args = [c \in Callers |-> None]
    /\ given = [c \in Callers |-> None]
    /\ pos = [c \in Callers |-> 0]
    /\ safe_chunks = [c \in Callers |-> <<>>]
    /\ results = [c \in Callers |-> NoOutcome]
    /\ log = <<>>
    /\ calls = 0
    /\ overlap = [c \in Callers |-> FALSE]

GenIdle ==
    /\ gpc = "off"
    /\ count = 0
    /\ idx = 0
    /\ vectors = <<>>
    /\ file = NoFile
    /\ writes = 0
    /\ stdout = <<>>

(***************************************************************************)
(* A single call of summarize on each input.                               *)
(***************************************************************************)
Hi == Text(<<"h", "i">>)
Full == Text(Rep("a", FragmentCap))
Long == Text([i \in 1..(FragmentCap + 1000) |-> IF i <= FragmentCap THEN "b" ELSE "z"])

Fragments == {None, Hi, IntVal(-7), BoolVal(TRUE), Full, Long}

Lists(S, n) == UNION {[1..k -> S] : k \in 0..n}

Inputs == {None} \cup {List(xs) : xs \in Lists(Fragments, MaxChunks)}

Init ==
    /\ chunks \in Inputs
    /\ outcome = NoOutcome
    /\ ConcIdle
    /\ GenIdle

Call ==
    /\ outcome = NoOutcome
    /\ outcome' = summarize(chunks)
    /\ UNCHANGED <<chunks, concVars, genVars>>

Next == Call

Spec == Init /\ [][Next]_vars

(***************************************************************************)
(* Concurrent callers, each call run statement by statement.               *)
(***************************************************************************)
ConcInputs ==
    { None,
      List(<<>>),
      List(<<None, Hi, None>>),
      List(<<Hi, IntVal(-7)>>),
      List(<<Long, BoolVal(TRUE)>>) }

\* One list shared by every call (a class attribute, a module global).
FrameShared(c) == 1

\* The frame that holds a call's local variables: one per call.
Frame(c) == c

\* The list of the previous call kept (a mutable default, a cache).
StaleList(old) == old

\* `safe_chunks: list[str] = []`: the list a call starts with, given what the
\* frame's slot held before.
FreshList(old) == <<>>

\* The call, up to the loop: lines 10-15.
Enter(c, in) ==
    /\ pc[c] = "idle"
    /\ calls < MaxCalls
    /\ calls' = calls + 1
    /\ args' = [args EXCEPT ![c] = in]
    /\ given' = [given EXCEPT ![c] = in]
    /\ pos' = [pos EXCEPT ![c] = 0]
    /\ overlap' = [overlap EXCEPT ![c] = FALSE]
    /\ IF ChunksIsNone(in)
       THEN /\ results' = [results EXCEPT ![c] = Returned(Text(<<>>))]
            /\ pc' = [pc EXCEPT ![c] = "done"]
            /\ UNCHANGED safe_chunks
       ELSE IF ~Iterable(in)
       THEN /\ results' = [results EXCEPT ![c] = Raised]
            /\ pc' = [pc EXCEPT ![c] = "done"]
            /\ UNCHANGED safe_chunks
       ELSE /\ safe_chunks' = [safe_chunks EXCEPT
                                 ![Frame(c)] = FreshList(safe_chunks[Frame(c)])]
            /\ pc' = [pc EXCEPT ![c] = "loop"]
            /\ UNCHANGED results
    /\ UNCHANGED <<log, sumVars, genVars>>

\* One iteration of `for chunk in chunks`: lines 16-21.
Loop(c) ==
    /\ pc[c] = "loop"
    /\ pos[c] < Len(args[c].val)
    /\ safe_chunks' = [safe_chunks EXCEPT
                         ![Frame(c)] = Visit(safe_chunks[Frame(c)], args[c].val[pos[c] + 1])]
    /\ pos' = [pos EXCEPT ![c] = pos[c] + 1]
    /\ overlap' = [overlap EXCEPT
                     ![c] = overlap[c] \/ \E d \in Callers \ {c} : pc[d] = "loop" /\ pos[d] > 0]
    /\ UNCHANGED <<pc, args, given, results, log, calls, sumVars, genVars>>

\* The loop's exit and the return: lines 23-28.
Return(c) ==
    /\ pc[c] = "loop"
    /\ pos[c] = Len(args[c].val)
    /\ results' = [results EXCEPT ![c] = Finish(safe_chunks[Frame(c)])]
    /\ pc' = [pc EXCEPT ![c] = "done"]
    /\ UNCHANGED <<args, given, pos, safe_chunks, log, calls, overlap, sumVars, genVars>>

\* The caller takes the result.
Collect(c) ==
    /\ pc[c] = "done"
    /\ log' = Append(log, [input |-> given[c], output |-> results[c]])
    /\ pc' = [pc EXCEPT ![c] = "idle"]
    /\ results' = [results EXCEPT ![c] = NoOutcome]
    /\ args' = [args EXCEPT ![c] = None]
    /\ given' = [given EXCEPT ![c] = None]
    /\ pos' = [pos EXCEPT ![c] = 0]
    /\ overlap' = [overlap EXCEPT ![c] = FALSE]
    /\ UNCHANGED <<safe_chunks, calls, sumVars, genVars>>

ConcInit ==
    /\ SumIdle
    /\ ConcIdle
    /\ GenIdle

ConcNext ==
    \E c \in Callers :
        \/ \E in \in ConcInputs : Enter(c, in)
        \/ Loop(c)
        \/ Return(c)
        \/ Collect(c)

ConcSpec == ConcInit /\ [][ConcNext]_vars

(***************************************************************************)
(* The vector generator: main, generate_vectors and write_manifest.        *)
(***************************************************************************)
Empty == Text(<<>>)
TooLong == Text(Rep("c", TextMax + 1))

\* Lists a generator of text lists could produce.
CandidateLists ==
    { <<>>, <<Hi>>, <<Empty, Hi>>, <<Full, Hi>>, <<TooLong>>, <<Hi, TooLong>>,
      [i \in 1..ListMax |-> Empty], [i \in 1..(ListMax + 1) |-> Hi] }

\* st.lists(st.text(max_size=5000), max_size=50): the values .example() draws
\* from.
text_list_strategy ==
    { List(xs) : xs \in { l \in CandidateLists :
                            /\ Len(l) <= ListMax
                            /\ \A i \in 1..Len(l) : IsText(l[i]) /\ Len(l[i].val) <= TextMax } }

\* Identifiers counted from one.
VectorIdOneBased(i) == <<"v", "e", "c", "t", "o", "r", "_">> \o Digits(i + 1)

\* f"vector_{idx}"
VectorId(i) == <<"v", "e", "c", "t", "o", "r", "_">> \o Digits(i)

\* The dict appended for index i: `drawn` is the value of chunks.
Vector(i, drawn) ==
    [id |-> VectorId(i), input |-> drawn, expected_output |-> summarize(drawn).value]

\* `return vectors` inside the loop: the list is returned after one append.
LoopDoneEarly(i, n) == i >= n \/ i >= 1

\* `for idx in range(count)` has run out.
LoopDone(i, n) == i >= n

OUTPUT_PATH == "examples/react-web/public/test_vectors.json"

\* datetime.now(timezone.utc).isoformat()
Clock == {"2026-01-01T00:00:00+00:00", "2026-01-02T00:00:00+00:00"}

Manifest(now, vs) ==
    [kind |-> "manifest", version |-> "1.0", generated_at |-> now, vectors |-> vs]

\* What a failed write_text leaves at the path: the bytes written so far.
Torn == [kind |-> "torn", version |-> "", generated_at |-> "", vectors |-> <<>>]

\* print(f"Wrote {len(vectors)} vectors to {OUTPUT_PATH}")
WroteLine(vs) == <<"Wrote", Digits(Len(vs)), "vectors to", OUTPUT_PATH>>

\* One iteration of generate_vectors' loop: a draw, the oracle, the append.
Generate ==
    /\ gpc = "generate"
    /\ ~LoopDone(idx, count)
    /\ \E drawn \in text_list_strategy :
         IF summarize(drawn).raised
         THEN gpc' = "failed" /\ UNCHANGED <<idx, vectors>>
         ELSE /\ vectors' = Append(vectors, Vector(idx, drawn))
              /\ idx' = idx + 1
              /\ UNCHANGED gpc
    /\ UNCHANGED <<count, file, writes, stdout, sumVars, concVars>>

\* .example() raises: nothing in generate_vectors or main catches it.
DrawFails ==
    /\ gpc = "generate"
    /\ ~LoopDone(idx, count)
    /\ gpc' = "failed"
    /\ UNCHANGED <<count, idx, vectors, file, writes, stdout, sumVars, concVars>>

\* `return vectors`
GenerateReturns ==
    /\ gpc = "generate"
    /\ LoopDone(idx, count)
    /\ gpc' = "write"
    /\ UNCHANGED <<count, idx, vectors, file, writes, stdout, sumVars, concVars>>

\* write_manifest, path.parent.mkdir raising.
MkdirFails ==
    /\ gpc = "write"
    /\ gpc' = "failed"
    /\ UNCHANGED <<count, idx, vectors, file, writes, stdout, sumVars, concVars>>

\* write_manifest, path.write_text raising: the file is as it was, or holds
\* part of the document.
WriteFails ==
    /\ gpc = "write"
    /\ writes' = writes + 1
    /\ file' \in {file, Torn}
    /\ gpc' = "failed"
    /\ UNCHANGED <<count, idx, vectors, stdout, sumVars, concVars>>

\* write_manifest returning.
WriteManifest ==
    /\ gpc = "write"
    /\ writes' = writes + 1
    /\ \E now \in Clock : file' = Manifest(now, vectors)
    /\ gpc' = "print"
    /\ UNCHANGED <<count, idx, vectors, stdout, sumVars, concVars>>

\* main's print.
PrintWrote ==
    /\ gpc = "print"
    /\ stdout' = Append(stdout, WroteLine(vectors))
    /\ gpc' = "done"
    /\ UNCHANGED <<count, idx, vectors, file, writes, sumVars, concVars>>

GenInit ==
    /\ SumIdle
    /\ ConcIdle
    /\ gpc = "generate"
    /\ count \in 0..MaxCount
    /\ idx = 0
    /\ vectors = <<>>
    /\ file = NoFile
    /\ writes = 0
    /\ stdout = <<>>

GenNext ==
    \/ Generate
    \/ DrawFails
    \/ GenerateReturns
    \/ MkdirFails
    \/ WriteFails
    \/ WriteManifest
    \/ PrintWrote

GenSpec == GenInit /\ [][GenNext]_vars

(***************************************************************************)
(* Properties of a single call (Spec).                                     *)
(***************************************************************************)
Called == outcome # NoOutcome

MinOf(a, b) == IF a <= b THEN a ELSE b

Prefix(s, n) == SubSeq(s, 1, n)

NotNone(f) == f # None

\* The non-null fragments, in input order.
Kept(items) == SelectSeq(items, NotNone)

\* What a non-null fragment contributes: the first min(L, 5000) characters
\* of its text form.
Contribution(f) == Prefix(Str(f), MinOf(Len(Str(f)), FragmentCap))

\* parts[1] + "\n" + ... + "\n" + parts[n]
RECURSIVE JoinedUpTo(_, _)
JoinedUpTo(parts, n) ==
    IF n = 0 THEN <<>>
    ELSE IF n = 1 THEN parts[1]
    ELSE JoinedUpTo(parts, n - 1) \o <<"\n">> \o parts[n]

Expected(items) ==
    LET kept == Kept(items)
    IN  JoinedUpTo([i \in 1..Len(kept) |-> Contribution(kept[i])], Len(kept))

\* C1: summarize returns a string and never raises, whatever the input: a
\* null sequence, an empty one, one holding nulls, non-text elements or
\* fragments longer than 5,000 characters.
Totality == Called => ~outcome.raised /\ IsText(outcome.value)

TotalityWitness ==
    /\ Called
    /\ chunks = List(<<None, IntVal(-7), Long>>)
    /\ ~outcome.raised
    /\ IsText(outcome.value)

\* C2: the returned text is at most 20,000 characters long.
OutputBound == Called /\ ~outcome.raised => Len(outcome.value.val) <= SummaryCap

OutputBoundWitness ==
    /\ Called
    /\ chunks = List(<<Long, Full, Long, Full>>)
    /\ Len(Expected(chunks.val)) > SummaryCap
    /\ Len(outcome.value.val) = SummaryCap

\* C3: the result is the first 20,000 characters of the non-null fragments,
\* each converted to text and cut to 5,000 characters, joined in input order
\* with one newline between consecutive entries; it is that join itself when
\* the join is at most 20,000 characters long.
JoinLaw ==
    Called /\ chunks # None =>
        LET e == Expected(chunks.val)
        IN  /\ outcome = Returned(Text(Prefix(e, MinOf(Len(e), SummaryCap))))
            /\ Len(e) <= SummaryCap => outcome = Returned(Text(e))

JoinLawWitness ==
    /\ Called
    /\ chunks = List(<<BoolVal(TRUE), None, Hi, IntVal(-7)>>)
    /\ outcome = Returned(Text(<<"T", "r", "u", "e", "\n", "h", "i", "\n", "-", "7">>))

\* C4: summarize(None), summarize of an empty sequence and summarize of a
\* sequence of nulls are the empty string.
EmptyInputLaw ==
    Called /\ (chunks = None \/ \A i \in 1..Len(chunks.val) : chunks.val[i] = None)
        => outcome = Returned(Text(<<>>))

EmptyInputWitness ==
    /\ Called
    /\ chunks = List(<<None, None>>)
    /\ outcome = Returned(Text(<<>>))

\* C5: a non-null fragment whose text form has length L contributes the
\* prefix of length min(L, 5000) of that text form to the join; a single
\* fragment's output is that prefix.
TruncationLaw ==
    Called /\ chunks # None =>
        LET kept == Kept(chunks.val)
            safe == SafeChunks(chunks.val, Len(chunks.val))
        IN  /\ Len(safe) = Len(kept)
            /\ \A i \in 1..Len(kept) : safe[i] = Text(Contribution(kept[i]))
            /\ Len(kept) = 1 => outcome = Returned(Text(Contribution(kept[1])))

TruncationWitness ==
    /\ Called
    /\ chunks = List(<<Long>>)
    /\ Len(Str(Long)) = FragmentCap + 1000
    /\ outcome = Returned(Text(Rep("b", FragmentCap)))

(***************************************************************************)
(* Properties of concurrent and repeated calls (ConcSpec).                 *)
(***************************************************************************)
\* C6: two calls with the same input return the same output, whatever calls
\* were made in between.
Determinism ==
    \A i, j \in 1..Len(log) :
        log[i].input = log[j].input => log[i].output = log[j].output

DeterminismWitness ==
    /\ Len(log) = 3
    /\ log[1].input = List(<<Hi, IntVal(-7)>>)
    /\ log[3].input = log[1].input
    /\ log[2].input # log[1].input
    /\ log[3].output = Returned(Text(<<"h", "i", "\n", "-", "7">>))

\* C10: a call leaves its argument as it was given, and returns what the
\* same call returns when it runs alone, however the callers' steps
\* interleave.
Reentrancy ==
    \A c \in Callers :
        /\ pc[c] # "idle" => args[c] = given[c]
        /\ pc[c] = "done" => results[c] = summarize(given[c])

ReentrancyWitness ==
    /\ pc[1] = "done"
    /\ overlap[1]
    /\ given[1] = List(<<None, Hi, None>>)
    /\ results[1] = Returned(Hi)
    /\ pc[2] = "loop"
    /\ pos[2] = 1
    /\ given[2] = List(<<Hi, IntVal(-7)>>)

(***************************************************************************)
(* Properties of the generator (GenSpec).                                  *)
(***************************************************************************)
Generated == gpc \in {"write", "print", "done"}

\* C8: generate_vectors(count) returns count vectors; the vector at position
\* i has id "vector_<i>", its expected_output is summarize of its own input,
\* and its input has at most 50 fragments of at most 5,000 characters each.
VectorListShape ==
    /\ Generated => Len(vectors) = count
    /\ \A i \in 1..Len(vectors) :
         /\ vectors[i].id = <<"v", "e", "c", "t", "o", "r", "_">> \o Digits(i - 1)
         /\ Returned(vectors[i].expected_output) = summarize(vectors[i].input)
         /\ Len(vectors[i].input.val) <= ListMax
         /\ \A k \in 1..Len(vectors[i].input.val) :
              /\ IsText(vectors[i].input.val[k])
              /\ Len(vectors[i].input.val[k].val) <= TextMax
    /\ \A i, j \in 1..Len(vectors) : i # j => vectors[i].id # vectors[j].id

VectorListWitness ==
    /\ gpc = "write"
    /\ count = 2
    /\ Len(vectors) = 2
    /\ vectors[1].id = <<"v", "e", "c", "t", "o", "r", "_", "0">>
    /\ Len(vectors[1].input.val) = ListMax
    /\ vectors[2].id = <<"v", "e", "c", "t", "o", "r", "_", "1">>
    /\ vectors[2].input = List(<<Full, Hi>>)
    /\ Len(vectors[2].expected_output.val) = FragmentCap + 3

\* C9: the manifest is written at most once and only when all count vectors
\* have been generated, so the manifest at the path never holds a partial
\* list; a failure ends the run, with no retry and no success line; the
\* success line is printed only once the write has completed.
ManifestState ==
    /\ writes <= 1
    /\ writes > 0 => Len(vectors) = count
    /\ file.kind = "manifest" =>
         writes = 1 /\ file.vectors = vectors /\ Len(file.vectors) = count
    /\ stdout # <<>> =>
         /\ file.kind = "manifest"
         /\ stdout = << <<"Wrote", Digits(count), "vectors to", OUTPUT_PATH>> >>
    /\ gpc = "failed" => stdout = <<>> /\ file.kind # "manifest"

ManifestWriteOrdering ==
    /\ []ManifestState
    /\ [][gpc = "failed" => gpc' = "failed"]_vars

ManifestWitness ==
    /\ gpc = "done"
    /\ count = 2
    /\ writes = 1
    /\ file.kind = "manifest"
    /\ Len(file.vectors) = 2
    /\ stdout = << <<"Wrote", <<"2">>, "vectors to", OUTPUT_PATH>> >>

====
